---- MODULE Spec2Model ----
(***************************************************************************)
(* Model of the Exodus 2026 contact-form backend (src/contactexo.py):      *)
(* the validator, the sanitizer, the Flask-Limiter rate limits, the two    *)
(* mail sends and the request handler of POST /api/contact, and the        *)
(* GET /api/health route.                                                  *)
(*                                                                         *)
(* Text is modelled as a run-length encoded string: a sequence of runs     *)
(* [c |-> token, n |-> count].  A token is one character of the input, or  *)
(* (after HTML escaping) one entity such as "&amp;".  Lengths are counted  *)
(* in characters, so the program's caps (100, 1000, 20) keep their values. *)
(***************************************************************************)
EXTENDS Integers, Sequences, FiniteSets, TLC

----------------------------------------------------------------------------
(* Program constants                                                       *)

NameMin == 2
NameMax == 100
PhoneMinDigits == 10
PhoneMaxDigits == 15
PhoneCap == 20
MessageMin == 10
MessageMax == 1000
TldMin == 2

----------------------------------------------------------------------------
(* Characters and strings                                                  *)

Spaces == {" "}
UpperLetters == {"J", "E"}
LowerLetters == {"j", "e", "o", "x", "c"}
Letters == UpperLetters \cup LowerLetters
Digits == {"5"}
HtmlSpecial == {"&", "<", ">", "\"", "'"}

\* str.lower() on one character
LowerChar(c) == IF c = "J" THEN "j" ELSE IF c = "E" THEN "e" ELSE c

\* markupsafe.escape on one character
EscapeChar(c) ==
    CASE c = "&" -> "&amp;"
      [] c = "<" -> "&lt;"
      [] c = ">" -> "&gt;"
      [] c = "'" -> "&#39;"
      [] c = "\"" -> "&#34;"
      [] OTHER -> c

\* number of characters of a token
TokLen(t) ==
    CASE t \in {"&amp;", "&#39;", "&#34;"} -> 5
      [] t \in {"&lt;", "&gt;"} -> 4
      [] OTHER -> 1

Run(c, n) == [c |-> c, n |-> n]

\* a string made of n copies of c
Rep(c, n) == IF n = 0 THEN << >> ELSE << Run(c, n) >>

RECURSIVE StrLen(_)
\* len(s)
StrLen(s) == IF s = << >> THEN 0 ELSE TokLen(s[1].c) * s[1].n + StrLen(Tail(s))

RECURSIVE LStrip(_)
LStrip(s) ==
    IF s = << >> THEN << >>
    ELSE IF s[1].c \in Spaces THEN LStrip(Tail(s)) ELSE s

RECURSIVE RStrip(_)
RStrip(s) ==
    IF s = << >> THEN << >>
    ELSE IF s[Len(s)].c \in Spaces THEN RStrip(SubSeq(s, 1, Len(s) - 1)) ELSE s

\* s.strip()
Strip(s) == RStrip(LStrip(s))

RECURSIVE Take(_, _)
\* s[:k] on an unescaped string (every token is one character)
Take(s, k) ==
    IF s = << >> \/ k <= 0 THEN << >>
    ELSE IF s[1].n <= k THEN << s[1] >> \o Take(Tail(s), k - s[1].n)
    ELSE << Run(s[1].c, k) >>

\* s.lower()
Lower(s) == [i \in 1..Len(s) |-> Run(LowerChar(s[i].c), s[i].n)]

\* markupsafe.escape(s)
Escape(s) == [i \in 1..Len(s) |-> Run(EscapeChar(s[i].c), s[i].n)]

RECURSIVE DigitCount(_)
\* len(re.sub(r'[^\d]', '', s))
DigitCount(s) ==
    IF s = << >> THEN 0
    ELSE (IF s[1].c \in Digits THEN s[1].n ELSE 0) + DigitCount(Tail(s))

RECURSIVE Expand(_)
\* the characters of s, one per element
Expand(s) ==
    IF s = << >> THEN << >>
    ELSE [i \in 1..s[1].n |-> s[1].c] \o Expand(Tail(s))

\* the character classes of email_regex
EmailLocalClass == Letters \cup Digits \cup {".", "_", "%", "+", "-"}
EmailDomainClass == Letters \cup Digits \cup {".", "-"}

AllIn(e, lo, hi, class) == \A i \in lo..hi : e[i] \in class

\* re.match(r'^[A-Za-z0-9._%+-]+@[A-Za-z0-9.-]+\.[A-Za-z]{2,}$', s): some
\* split local @ domain . tld matches the three character classes
EmailMatch(s) ==
    LET e == Expand(s) IN
    \E at \in 1..Len(e) : \E dot \in 1..Len(e) :
        /\ e[at] = "@"
        /\ e[dot] = "."
        /\ at > 1
        /\ AllIn(e, 1, at - 1, EmailLocalClass)
        /\ dot > at + 1
        /\ AllIn(e, at + 1, dot - 1, EmailDomainClass)
        /\ Len(e) - dot >= TldMin
        /\ AllIn(e, dot + 1, Len(e), Letters)

----------------------------------------------------------------------------
(* Request bodies                                                          *)

\* A JSON value under one key of the body: the key is absent, or it carries
\* a string, null or a number.
Absent == [kind |-> "absent", val |-> << >>]
JsonNull == [kind |-> "null", val |-> << >>]
JsonNum == [kind |-> "num", val |-> << >>]
Str(s) == [kind |-> "str", val |-> s]

\* request.get_json(silent=True): None for a body that is not JSON, a list
\* for a JSON array, a dict for a JSON object
NoFields == [name |-> Absent, email |-> Absent, phone |-> Absent, message |-> Absent]
NotJsonBody == [json |-> "invalid", data |-> NoFields]
ArrayBody == [json |-> "array", data |-> NoFields]
ObjectBody(n, e, p, m) ==
    [json |-> "object", data |-> [name |-> n, email |-> e, phone |-> p, message |-> m]]

\* data.get(key, ''): the value under the key, '' when the key is absent
GetOrEmpty(data, key) == IF data[key].kind = "absent" THEN Str(<< >>) ELSE data[key]

\* calling .strip() on a value that is not a str raises AttributeError
StripRaises(v) == v.kind # "str"

ErrNameShort == "Name must be at least 2 characters long"
ErrNameLong == "Name must be less than 100 characters"
ErrEmail == "Please provide a valid email address"
ErrPhone == "Please provide a valid phone number"
ErrMessageShort == "Message must be at least 10 characters long"
ErrMessageLong == "Message must be less than 1000 characters"

\* faulty variant: the upper bound of the name is off by one
NameErrorsOffByOne(name) ==
    IF StrLen(name) < NameMin THEN << ErrNameShort >>
    ELSE IF StrLen(name) > NameMax + 1 THEN << ErrNameLong >>
    ELSE << >>

NameErrors(name) ==
    IF StrLen(name) < NameMin THEN << ErrNameShort >>
    ELSE IF StrLen(name) > NameMax THEN << ErrNameLong >>
    ELSE << >>

EmailErrors(email) == IF ~EmailMatch(email) THEN << ErrEmail >> ELSE << >>

\* faulty variant: the length of the phone is checked, not its digits
PhoneErrorsByLength(phone) ==
    IF phone # << >>
    THEN IF StrLen(phone) < PhoneMinDigits \/ StrLen(phone) > PhoneMaxDigits
         THEN << ErrPhone >> ELSE << >>
    ELSE << >>

PhoneErrors(phone) ==
    IF phone # << >>
    THEN IF DigitCount(phone) < PhoneMinDigits \/ DigitCount(phone) > PhoneMaxDigits
         THEN << ErrPhone >> ELSE << >>
    ELSE << >>

MessageErrors(message) ==
    IF StrLen(message) < MessageMin THEN << ErrMessageShort >>
    ELSE IF StrLen(message) > MessageMax THEN << ErrMessageLong >>
    ELSE << >>

Fields == {"name", "email", "phone", "message"}

\* faulty variant: the checks stop at the first violation
validate_contact_formFirstOnly(data) ==
    IF \E f \in Fields : StripRaises(GetOrEmpty(data, f))
    THEN [raised |-> TRUE, errors |-> << >>]
    ELSE LET all == NameErrors(Strip(GetOrEmpty(data, "name").val))
                    \o EmailErrors(Strip(GetOrEmpty(data, "email").val))
                    \o PhoneErrors(Strip(GetOrEmpty(data, "phone").val))
                    \o MessageErrors(Strip(GetOrEmpty(data, "message").val))
         IN [raised |-> FALSE,
             errors |-> IF all = << >> THEN << >> ELSE << all[1] >>]

\* validate_contact_form(data): the error list, or an exception raised by
\* .strip() on a value that is not a string
validate_contact_form(data) ==
    IF \E f \in Fields : StripRaises(GetOrEmpty(data, f))
    THEN [raised |-> TRUE, errors |-> << >>]
    ELSE [raised |-> FALSE,
          errors |-> NameErrors(Strip(GetOrEmpty(data, "name").val))
                     \o EmailErrors(Strip(GetOrEmpty(data, "email").val))
                     \o PhoneErrors(Strip(GetOrEmpty(data, "phone").val))
                     \o MessageErrors(Strip(GetOrEmpty(data, "message").val))]

\* the sanitized values of contact(): trim, cut to the cap, escape
NoSubmission == [name |-> << >>, email |-> << >>, phone |-> << >>, message |-> << >>]

SanitizeName(data) == Escape(Take(Strip(data.name.val), NameMax))
\* faulty variant: the email keeps its case
SanitizeEmailKeepsCase(data) == Escape(Strip(data.email.val))
SanitizeEmail(data) == Escape(Lower(Strip(data.email.val)))
\* faulty variant: the phone is not cut to its cap
SanitizePhoneUncapped(data) == Escape(Strip(GetOrEmpty(data, "phone").val))
SanitizePhone(data) == Escape(Take(Strip(GetOrEmpty(data, "phone").val), PhoneCap))
SanitizeMessage(data) == Escape(Take(Strip(data.message.val), MessageMax))

Sanitized(data) ==
    [name |-> SanitizeName(data), email |-> SanitizeEmail(data),
     phone |-> SanitizePhone(data), message |-> SanitizeMessage(data)]

----------------------------------------------------------------------------
(* Rate limits (Flask-Limiter, fixed-window strategy, memory storage)      *)

ContactAmount == 5
ContactWindow == 15
HourAmount == 50
HourWindow == 60
DayAmount == 200
DayWindow == 1440

\* time is counted in minutes
ContactLimit == [id |-> "5 per 15 minutes", amount |-> ContactAmount, window |-> ContactWindow]
HourLimit == [id |-> "50 per hour", amount |-> HourAmount, window |-> HourWindow]
DayLimit == [id |-> "200 per day", amount |-> DayAmount, window |-> DayWindow]

\* default_limits of the Limiter
DefaultLimits == {DayLimit, HourLimit}

Endpoints == {"contact", "health"}

\* The limits that apply to a route: a route decorated with limiter.limit
\* carries the decorated limit, which overrides the default limits
\* (override_defaults is left at True); any other route carries the defaults.
RouteLimits(endpoint) ==
    IF endpoint = "contact" THEN {ContactLimit} ELSE DefaultLimits

AllLimits == DefaultLimits \cup {ContactLimit}
LimitIds == {l.id : l \in AllLimits}
LimitOf(id) == CHOOSE l \in AllLimits : l.id = id

EmptyBucket == [count |-> 0, expiry |-> 0]

\* one counter per client key, endpoint and limit
EmptyStorage == [e \in Endpoints |-> [id \in LimitIds |-> EmptyBucket]]

\* the counter of a bucket as read at time t: an expired window is dropped
Live(bucket, t) == IF bucket.count > 0 /\ bucket.expiry <= t THEN EmptyBucket ELSE bucket

\* the storage's incr: count one more; the first hit of a window sets its expiry
Incr(bucket, t, window) ==
    LET live == Live(bucket, t) IN
    [count |-> live.count + 1,
     expiry |-> IF live.count = 0 THEN t + window ELSE live.expiry]

\* the counters of one client after a request to endpoint at time t
HitAll(store, endpoint, t) ==
    [e \in Endpoints |-> [id \in LimitIds |->
        IF e = endpoint /\ LimitOf(id) \in RouteLimits(endpoint)
        THEN Incr(store[e][id], t, LimitOf(id).window)
        ELSE store[e][id]]]

\* faulty variant: the amount itself is refused
AllowedStrict(store, endpoint, t) ==
    \A l \in RouteLimits(endpoint) :
        LET c == Live(store[endpoint][l.id], t).count + 1 IN c < l.amount

\* the request is allowed when every limit of the route is within its amount
\* after the hit
Allowed(store, endpoint, t) ==
    \A l \in RouteLimits(endpoint) :
        HitAll(store, endpoint, t)[endpoint][l.id].count <= l.amount

----------------------------------------------------------------------------
(* Bounds of the model                                                     *)

\* client keys (remote addresses)
Keys == {"k1", "k2"}
\* requests handled at the same time
NumSlots == 2
Slots == 1..NumSlots
\* requests counted beyond a limit's amount before the model stops sending
MaxOver == 1
\* the clock of the main specification advances by TickStep up to MaxTime
TickStep == 5
MaxTime == 20

----------------------------------------------------------------------------
(* State                                                                   *)

VARIABLES
    now,        \* the clock, in minutes
    storage,    \* the limiter's counters, per client key
    req,        \* the requests in flight, per slot
    health,     \* the last answer of GET /api/health
    ledger,     \* per client key: the open 15-minute window and its arrivals
    admitted    \* per client key: contact requests admitted so far

vars == << now, storage, req, health, ledger, admitted >>

MsgInvalidJson == "Invalid or missing JSON data"
MsgMailDown == "Email service temporarily unavailable."
MsgThanks == "Thank you! Your message has been sent successfully."
MsgInternal == "Internal server error."
MsgRateLimited == "Too Many Requests"

NoResponse == [status |-> 0, success |-> FALSE, errors |-> << >>, message |-> ""]
Response(st, ok, errs, msg) == [status |-> st, success |-> ok, errors |-> errs, message |-> msg]

IdleReq ==
    [pc |-> "idle", key |-> "", body |-> NotJsonBody, ord |-> 0,
     stages |-> {}, errors |-> << >>, san |-> NoSubmission,
     sends |-> << >>, resp |-> NoResponse]

\* the result of mail.send: it returns, raises a transport error, or raises
\* some other exception
MailOutcomes == {"ok", "transport", "other"}

AdminAddress == << Run("a", 1), Run("@", 1), Run("x", 1) >>

NoWindow == [start |-> -1, n |-> 0]

\* the window of the ledger at time t: none once 15 minutes have passed
Closed(w, t) == IF w.start >= 0 /\ t >= w.start + ContactWindow THEN NoWindow ELSE w

\* the window of the ledger after an arrival at time t
Arrive(w, t) ==
    IF w.start < 0 \/ t >= w.start + ContactWindow
    THEN [start |-> t, n |-> 1]
    ELSE [start |-> w.start, n |-> w.n + 1]

Init ==
    /\ now = 0
    /\ storage = [k \in Keys |-> EmptyStorage]
    /\ req = [s \in Slots |-> IdleReq]
    /\ health = [key |-> "", status |-> 0, body |-> ""]
    /\ ledger = [k \in Keys |-> NoWindow]
    /\ admitted = [k \in Keys |-> 0]

\* the counters stay within MaxOver of their amounts
WithinModel(store, endpoint) ==
    \A l \in RouteLimits(endpoint) : store[endpoint][l.id].count <= l.amount + MaxOver

----------------------------------------------------------------------------
(* POST /api/contact                                                       *)

\* faulty variant: a request over the limit is counted but still handed to the view
ReceiveSoft(s, k, b) ==
    /\ req[s].pc \in {"idle", "responded"}
    /\ storage[k]["contact"][ContactLimit.id].count <= ContactAmount + MaxOver
    /\ storage' = [storage EXCEPT ![k]["contact"][ContactLimit.id].count = @ + 1,
                                  ![k]["contact"][ContactLimit.id].expiry = now + ContactWindow]
    /\ ledger' = [ledger EXCEPT ![k] = [start |-> now, n |-> ledger[k].n + 1]]
    /\ req' = [req EXCEPT ![s] =
                    [IdleReq EXCEPT !.pc = "admitted", !.key = k, !.body = b,
                                    !.ord = ledger[k].n + 1,
                                    !.stages = {"RateChecked"}]]
    /\ admitted' = [admitted EXCEPT ![k] = @ + 1]
    /\ UNCHANGED << now, health >>

\* faulty variant: every client is counted under one key
ReceiveSharedKey(s, k, b) ==
    /\ req[s].pc \in {"idle", "responded"}
    /\ WithinModel(HitAll(storage["k1"], "contact", now), "contact")
    /\ storage' = [storage EXCEPT !["k1"] = HitAll(@, "contact", now)]
    /\ ledger' = [ledger EXCEPT ![k] = Arrive(@, now)]
    /\ IF Allowed(storage["k1"], "contact", now)
       THEN /\ req' = [req EXCEPT ![s] =
                    [IdleReq EXCEPT !.pc = "admitted", !.key = k, !.body = b,
                                    !.ord = Arrive(ledger[k], now).n,
                                    !.stages = {"RateChecked"}]]
            /\ admitted' = [admitted EXCEPT ![k] = @ + 1]
       ELSE /\ req' = [req EXCEPT ![s] =
                    [IdleReq EXCEPT !.pc = "responded", !.key = k, !.body = b,
                                    !.ord = Arrive(ledger[k], now).n,
                                    !.resp = Response(429, FALSE, << >>, MsgRateLimited)]]
            /\ UNCHANGED admitted
    /\ UNCHANGED << now, health >>

\* The request reaches the route: the limiter counts it and rejects it with
\* 429 when a limit is exceeded, before the view function runs.
Receive(s, k, b) ==
    /\ req[s].pc \in {"idle", "responded"}
    /\ WithinModel(HitAll(storage[k], "contact", now), "contact")
    /\ storage' = [storage EXCEPT ![k] = HitAll(@, "contact", now)]
    /\ ledger' = [ledger EXCEPT ![k] = Arrive(@, now)]
    /\ IF Allowed(storage[k], "contact", now)
       THEN /\ req' = [req EXCEPT ![s] =
                    [IdleReq EXCEPT !.pc = "admitted", !.key = k, !.body = b,
                                    !.ord = Arrive(ledger[k], now).n,
                                    !.stages = {"RateChecked"}]]
            /\ admitted' = [admitted EXCEPT ![k] = @ + 1]
       ELSE /\ req' = [req EXCEPT ![s] =
                    [IdleReq EXCEPT !.pc = "responded", !.key = k, !.body = b,
                                    !.ord = Arrive(ledger[k], now).n,
                                    !.resp = Response(429, FALSE, << >>, MsgRateLimited)]]
            /\ UNCHANGED admitted
    /\ UNCHANGED << now, health >>

\* The limiter's work for one request in two steps, as concurrent requests see
\* it: the storage's incr counts the request under the lock of its key
\* (HitStep), then the limiter compares the counter it reads back with the
\* amount (CheckStep).  Receive is the two steps with nothing in between.

\* faulty variant: the increment is no read-modify-write under a lock, so it
\* is lost when another request of the key is between its hit and its check
HitStepLostUpdate(s, k, b) ==
    /\ req[s].pc \in {"idle", "responded"}
    /\ WithinModel(HitAll(storage[k], "contact", now), "contact")
    /\ storage' = IF \E t \in Slots : t # s /\ req[t].pc = "counted" /\ req[t].key = k
                  THEN storage
                  ELSE [storage EXCEPT ![k] = HitAll(@, "contact", now)]
    /\ ledger' = [ledger EXCEPT ![k] = Arrive(@, now)]
    /\ req' = [req EXCEPT ![s] =
                    [IdleReq EXCEPT !.pc = "counted", !.key = k, !.body = b,
                                    !.ord = Arrive(ledger[k], now).n]]
    /\ UNCHANGED << now, health, admitted >>

HitStep(s, k, b) ==
    /\ req[s].pc \in {"idle", "responded"}
    /\ WithinModel(HitAll(storage[k], "contact", now), "contact")
    /\ storage' = [storage EXCEPT ![k] = HitAll(@, "contact", now)]
    /\ ledger' = [ledger EXCEPT ![k] = Arrive(@, now)]
    /\ req' = [req EXCEPT ![s] =
                    [IdleReq EXCEPT !.pc = "counted", !.key = k, !.body = b,
                                    !.ord = Arrive(ledger[k], now).n]]
    /\ UNCHANGED << now, health, admitted >>

\* the counter as the limiter reads it back after its hit: the hits of other
\* requests made meanwhile are in it
ReadBack(store, t) ==
    LET live == Live(store["contact"][ContactLimit.id], t) IN
    IF live.count = 0 THEN 1 ELSE live.count

CheckStep(s) ==
    /\ req[s].pc = "counted"
    /\ IF ReadBack(storage[req[s].key], now) <= ContactAmount
       THEN /\ req' = [req EXCEPT ![s].pc = "admitted", ![s].stages = {"RateChecked"}]
            /\ admitted' = [admitted EXCEPT ![req[s].key] = @ + 1]
       ELSE /\ req' = [req EXCEPT ![s].pc = "responded",
                                  ![s].resp = Response(429, FALSE, << >>, MsgRateLimited)]
            /\ UNCHANGED admitted
    /\ UNCHANGED << now, storage, health, ledger >>

\* faulty variant: only a missing body is refused (data is None), an array goes on
ParseNoneOnly(s) ==
    /\ req[s].pc = "admitted"
    /\ IF req[s].body.json = "invalid"
       THEN req' = [req EXCEPT ![s].pc = "responded",
                               ![s].resp = [status |-> 400, success |-> FALSE,
                                            errors |-> << "Invalid or missing JSON data" >>,
                                            message |-> ""]]
       ELSE req' = [req EXCEPT ![s].pc = "parsed"]
    /\ UNCHANGED << now, storage, health, ledger, admitted >>

\* faulty variant: a request refused for its body gives its unit of quota back
ParseRefunds(s) ==
    /\ req[s].pc = "admitted"
    /\ IF req[s].body.json # "object"
       THEN /\ req' = [req EXCEPT ![s].pc = "responded",
                                  ![s].resp = Response(400, FALSE, << MsgInvalidJson >>, "")]
            /\ storage' = [storage EXCEPT ![req[s].key]["contact"][ContactLimit.id].count =
                                IF @ > 0 THEN @ - 1 ELSE @]
       ELSE /\ req' = [req EXCEPT ![s].pc = "parsed"]
            /\ UNCHANGED storage
    /\ UNCHANGED << now, health, ledger, admitted >>

\* data = request.get_json(silent=True); a body that is no dict is answered 400
Parse(s) ==
    /\ req[s].pc = "admitted"
    /\ IF req[s].body.json # "object"
       THEN req' = [req EXCEPT ![s].pc = "responded",
                               ![s].resp = Response(400, FALSE, << MsgInvalidJson >>, "")]
       ELSE req' = [req EXCEPT ![s].pc = "parsed"]
    /\ UNCHANGED << now, storage, health, ledger, admitted >>

\* errors = validate_contact_form(data); an exception leaves through the
\* outer handler as 500, a non-empty list is answered 400
Validate(s) ==
    /\ req[s].pc = "parsed"
    /\ LET v == validate_contact_form(req[s].body.data) IN
       IF v.raised
       THEN req' = [req EXCEPT ![s].pc = "responded",
                               ![s].resp = Response(500, FALSE, << >>, MsgInternal)]
       ELSE IF v.errors # << >>
       THEN req' = [req EXCEPT ![s].pc = "responded",
                               ![s].stages = @ \cup {"Validated"},
                               ![s].errors = v.errors,
                               ![s].resp = Response(400, FALSE, v.errors, "")]
       ELSE req' = [req EXCEPT ![s].pc = "validated",
                               ![s].stages = @ \cup {"Validated"}]
    /\ UNCHANGED << now, storage, health, ledger, admitted >>

\* the sanitized values, interpolated into the admin and the user message
Sanitize(s) ==
    /\ req[s].pc = "validated"
    /\ req' = [req EXCEPT ![s].pc = "sanitized",
                          ![s].stages = @ \cup {"Sanitized"},
                          ![s].san = Sanitized(req[s].body.data)]
    /\ UNCHANGED << now, storage, health, ledger, admitted >>

Sent(msg, to, outcome) == [msg |-> msg, to |-> to, outcome |-> outcome]

\* faulty variant: a failed admin send is logged and the handler goes on
SendAdminContinues(s, outcome) ==
    /\ req[s].pc = "sanitized"
    /\ req' = [req EXCEPT ![s].pc = "adminSent",
                          ![s].stages = @ \cup {"Dispatched"},
                          ![s].sends = Append(@, [msg |-> "admin", to |-> AdminAddress,
                                                  outcome |-> outcome])]
    /\ UNCHANGED << now, storage, health, ledger, admitted >>

\* mail.send(admin_msg); any exception is answered 503
SendAdmin(s, outcome) ==
    /\ req[s].pc = "sanitized"
    /\ IF outcome = "ok"
       THEN req' = [req EXCEPT ![s].pc = "adminSent",
                               ![s].stages = @ \cup {"Dispatched"},
                               ![s].sends = Append(@, Sent("admin", AdminAddress, outcome))]
       ELSE req' = [req EXCEPT ![s].pc = "responded",
                               ![s].stages = @ \cup {"Dispatched"},
                               ![s].sends = Append(@, Sent("admin", AdminAddress, outcome)),
                               ![s].resp = Response(503, FALSE, << >>, MsgMailDown)]
    /\ UNCHANGED << now, storage, health, ledger, admitted >>

\* faulty variant: a failure of the confirmation mail is swallowed
SendUserSwallows(s, outcome) ==
    /\ req[s].pc = "adminSent"
    /\ req' = [req EXCEPT ![s].pc = "responded",
                          ![s].sends = Append(@, [msg |-> "user", to |-> req[s].san.email,
                                                  outcome |-> outcome]),
                          ![s].resp = [status |-> 200, success |-> TRUE, errors |-> << >>,
                                       message |-> "Thank you! Your message has been sent successfully."]]
    /\ UNCHANGED << now, storage, health, ledger, admitted >>

\* faulty variant: a confirmation mail that raised is sent once more
SendUserRetries(s, outcome) ==
    /\ req[s].pc = "adminSent"
    /\ IF outcome = "ok"
       THEN req' = [req EXCEPT ![s].pc = "responded",
                               ![s].sends = Append(@, Sent("user", req[s].san.email, outcome)),
                               ![s].resp = Response(200, TRUE, << >>, MsgThanks)]
       ELSE IF Len(req[s].sends) < 2
       THEN req' = [req EXCEPT ![s].sends = Append(@, Sent("user", req[s].san.email, outcome))]
       ELSE req' = [req EXCEPT ![s].pc = "responded",
                               ![s].sends = Append(@, Sent("user", req[s].san.email, outcome)),
                               ![s].resp = Response(503, FALSE, << >>, MsgMailDown)]
    /\ UNCHANGED << now, storage, health, ledger, admitted >>

\* mail.send(user_msg); any exception is answered 503, else the answer is 200
SendUser(s, outcome) ==
    /\ req[s].pc = "adminSent"
    /\ IF outcome = "ok"
       THEN req' = [req EXCEPT ![s].pc = "responded",
                               ![s].sends = Append(@, Sent("user", req[s].san.email, outcome)),
                               ![s].resp = Response(200, TRUE, << >>, MsgThanks)]
       ELSE req' = [req EXCEPT ![s].pc = "responded",
                               ![s].sends = Append(@, Sent("user", req[s].san.email, outcome)),
                               ![s].resp = Response(503, FALSE, << >>, MsgMailDown)]
    /\ UNCHANGED << now, storage, health, ledger, admitted >>

\* mail.send(admin_msg) neither returns nor raises: the mail configuration sets
\* no timeout and the call is not guarded by one, so the handler stays in it
SendAdminHangs(s) ==
    /\ req[s].pc = "sanitized"
    /\ req' = [req EXCEPT ![s].pc = "blocked",
                          ![s].stages = @ \cup {"Dispatched"},
                          ![s].sends = Append(@, Sent("admin", AdminAddress, "hang"))]
    /\ UNCHANGED << now, storage, health, ledger, admitted >>

\* mail.send(user_msg) neither returns nor raises
SendUserHangs(s) ==
    /\ req[s].pc = "adminSent"
    /\ req' = [req EXCEPT ![s].pc = "blocked",
                          ![s].sends = Append(@, Sent("user", req[s].san.email, "hang"))]
    /\ UNCHANGED << now, storage, health, ledger, admitted >>

\* the steps the handler of one request can take
HandlerStep(s) ==
    \/ Parse(s)
    \/ Validate(s)
    \/ Sanitize(s)
    \/ \E o \in MailOutcomes : SendAdmin(s, o)
    \/ \E o \in MailOutcomes : SendUser(s, o)
    \/ SendAdminHangs(s)
    \/ SendUserHangs(s)

----------------------------------------------------------------------------
(* GET /api/health                                                         *)

\* The route carries no decorator, so the limiter applies the default limits
\* to it before the view function answers.
Health(k) ==
    /\ WithinModel(HitAll(storage[k], "health", now), "health")
    /\ storage' = [storage EXCEPT ![k] = HitAll(@, "health", now)]
    /\ health' = IF Allowed(storage[k], "health", now)
                 THEN [key |-> k, status |-> 200, body |-> "healthy"]
                 ELSE [key |-> k, status |-> 429, body |-> MsgRateLimited]
    /\ UNCHANGED << now, req, ledger, admitted >>

----------------------------------------------------------------------------
(* Time                                                                    *)

\* The clock advances; the memory storage's timer drops the counters whose
\* window has expired, and a window of the ledger that has ended is closed.
Tick(d, horizon) ==
    /\ now + d <= horizon
    /\ now' = now + d
    /\ storage' = [k \in Keys |-> [e \in Endpoints |-> [id \in LimitIds |->
                        Live(storage[k][e][id], now + d)]]]
    /\ ledger' = [k \in Keys |-> Closed(ledger[k], now + d)]
    /\ UNCHANGED << req, health, admitted >>

----------------------------------------------------------------------------
(* Inputs                                                                  *)

TextJo == << Run("J", 1), Run("o", 1) >>
TextEmail == << Run("J", 1), Run("o", 1), Run("@", 1), Run("E", 1), Run("x", 1),
                Run(".", 1), Run("c", 1), Run("o", 1) >>
TextEmailLower == << Run(" ", 1), Run("j", 1), Run("o", 1), Run("@", 1), Run("e", 1),
                     Run("x", 1), Run(".", 1), Run("c", 1), Run("o", 1), Run(" ", 2) >>
TextNoAt == << Run("j", 1), Run("o", 1), Run("-", 1), Run("e", 1), Run("x", 1) >>
TextShortTld == << Run("j", 1), Run("o", 1), Run("@", 1), Run("e", 1), Run("x", 1),
                   Run(".", 1), Run("c", 1) >>
\* 23 characters holding 10 digits, 5 of them after the 20th character
TextLongPhone == << Run("+", 1), Run("5", 5), Run("-", 12), Run("5", 5) >>

NameValues ==
    { Absent, JsonNull, Str(Rep("J", 1)),
      Str(<< Run(" ", 1) >> \o TextJo \o << Run(" ", 3) >>),
      Str(Rep("o", NameMax)), Str(Rep("o", NameMax + 1)), Str(Rep("&", NameMax)) }

EmailValues ==
    { Absent, JsonNum, Str(TextEmail), Str(TextEmailLower), Str(TextNoAt), Str(TextShortTld) }

PhoneValues ==
    { Absent, JsonNull, Str(Rep(" ", 3)), Str(Rep("5", PhoneMinDigits - 1)),
      Str(Rep("5", PhoneMinDigits)), Str(Rep("5", PhoneMaxDigits)),
      Str(Rep("5", PhoneMaxDigits + 1)), Str(TextLongPhone) }

MessageValues ==
    { Absent, JsonNull, Str(Rep("x", MessageMin - 1)),
      Str(<< Run(" ", 2), Run("x", MessageMin), Run(" ", 1) >>),
      Str(Rep("x", MessageMax)), Str(Rep("x", MessageMax + 1)), Str(Rep("<", MessageMax)) }

ObjectBodies ==
    { ObjectBody(n, e, p, m) :
        n \in NameValues, e \in EmailValues, p \in PhoneValues, m \in MessageValues }

AllBodies == ObjectBodies \cup {NotJsonBody, ArrayBody}

\* {"name":"Jo","email":"Jo@Ex.co","message":"xxxxxxxxxx"}: valid, no phone
ValidBody == ObjectBody(Str(TextJo), Str(TextEmail), Absent, Str(Rep("x", MessageMin)))
\* {"name":"J","email":"jo-ex","message":"xxxxxxxxx"}: three violations
ThreeErrorsBody ==
    ObjectBody(Str(Rep("J", 1)), Str(TextNoAt), Absent, Str(Rep("x", MessageMin - 1)))
\* {"name":null, ...}
NullNameBody == ObjectBody(JsonNull, Str(TextEmail), Absent, Str(Rep("x", MessageMin)))

SampleBodies == {NotJsonBody, ArrayBody, ValidBody, ThreeErrorsBody, NullNameBody}

----------------------------------------------------------------------------
(* Specifications                                                          *)

\* Requests of every client and sample body, handled one at a time, with the
\* clock running across the 15-minute window.
Next ==
    \/ \E k \in Keys, b \in SampleBodies : Receive(1, k, b)
    \/ Parse(1)
    \/ Validate(1)
    \/ Sanitize(1)
    \/ \E o \in MailOutcomes : SendAdmin(1, o)
    \/ \E o \in MailOutcomes : SendUser(1, o)
    \/ Tick(TickStep, MaxTime)

Spec == Init /\ [][Next]_vars

\* One request of one client, its body drawn from the whole input space.
NextFields ==
    \/ req[1].pc = "idle" /\ \E b \in AllBodies : Receive(1, "k1", b)
    \/ Parse(1)
    \/ Validate(1)
    \/ Sanitize(1)
    \/ \E o \in MailOutcomes : SendAdmin(1, o)
    \/ \E o \in MailOutcomes : SendUser(1, o)

SpecFields == Init /\ [][NextFields]_vars

\* Requests of one client handled at the same time, their steps interleaved.
ConcBodies == {ValidBody, ArrayBody}

NextConc ==
    \/ \E s \in Slots, b \in ConcBodies : Receive(s, "k1", b)
    \/ \E s \in Slots : Parse(s)
    \/ \E s \in Slots : Validate(s)
    \/ \E s \in Slots : Sanitize(s)
    \/ \E s \in Slots, o \in MailOutcomes : SendAdmin(s, o)
    \/ \E s \in Slots, o \in MailOutcomes : SendUser(s, o)

SpecConc == Init /\ [][NextConc]_vars

\* Requests of one client whose limiter steps interleave, all within the
\* first 15 minutes.
NextRace ==
    \/ \E s \in Slots : HitStep(s, "k1", NotJsonBody)
    \/ \E s \in Slots : CheckStep(s)
    \/ \E s \in Slots : Parse(s)

SpecRace == Init /\ [][NextRace]_vars

\* Valid requests of one client handled by concurrent threads; a mail send may
\* return, raise or hang.  Every thread that can take a step eventually does.
NextHang ==
    \/ \E s \in Slots : Receive(s, "k1", ValidBody)
    \/ \E s \in Slots : HandlerStep(s)

SpecHang == Init /\ [][NextHang]_vars /\ \A s \in Slots : WF_vars(HandlerStep(s))

\* One client sending requests that are no JSON through a whole day, the clock
\* advancing one 15-minute window at a time.
NextDay ==
    \/ admitted["k1"] <= DayAmount /\ Receive(1, "k1", NotJsonBody)
    \/ Parse(1)
    \/ Tick(ContactWindow, DayWindow - 1)

SpecDay == Init /\ [][NextDay]_vars

\* Health checks of one client within one hour, next to contact requests of
\* that client whose mail sends may fail.
NextHealth ==
    \/ Health("k1")
    \/ Receive(1, "k1", ValidBody)
    \/ Parse(1)
    \/ Validate(1)
    \/ Sanitize(1)
    \/ \E o \in {"ok", "transport"} : SendAdmin(1, o)
    \/ \E o \in {"ok", "transport"} : SendUser(1, o)

SpecHealth == Init /\ [][NextHealth]_vars

----------------------------------------------------------------------------
(* Properties                                                              *)

Responded(s) == req[s].pc = "responded"
Arrived(s) == req[s].pc # "idle"

\* the body is a JSON object whose four fields pass validation
ValidRequest(b) ==
    /\ b.json = "object"
    /\ validate_contact_form(b.data) = [raised |-> FALSE, errors |-> << >>]

AllSendsOk(s) == \A i \in 1..Len(req[s].sends) : req[s].sends[i].outcome = "ok"

\* C1: within one 15-minute window of a client key (opened by the key's first
\* request when no window is open), the first 5 contact requests are admitted
\* to the handler, and answered 200 when the body is valid and both sends
\* succeed, and any request after the 5th is rejected with 429.
C1_FirstFiveThenRejected ==
    \A s \in Slots : Arrived(s) =>
        /\ req[s].ord <= ContactAmount =>
              /\ "RateChecked" \in req[s].stages
              /\ req[s].resp.status # 429
              /\ (Responded(s) /\ ValidRequest(req[s].body) /\ AllSendsOk(s))
                    => req[s].resp.status = 200
        /\ req[s].ord > ContactAmount =>
              /\ Responded(s)
              /\ req[s].resp.status = 429

\* the 6th request of a window opened earlier is rejected although it is valid
C1_Witness ==
    /\ req[1].ord = ContactAmount + 1
    /\ req[1].body = ValidBody
    /\ req[1].resp.status = 429
    /\ admitted[req[1].key] >= ContactAmount
    /\ now > ledger[req[1].key].start

\* C2: the admin message is handed to the mail sender before the submitter
\* message; when the admin send raises, no second send is made and the answer
\* is 503 with success false; every request that passed validation and was
\* answered had its admin send attempted.
C2_AdminBeforeSubmitter ==
    \A s \in Slots :
        LET sends == req[s].sends IN
        /\ Len(sends) <= 2
        /\ Len(sends) >= 1 => sends[1].msg = "admin"
        /\ Len(sends) = 2 => sends[2].msg = "user" /\ sends[1].outcome = "ok"
        /\ (Len(sends) >= 1 /\ sends[1].outcome # "ok") =>
              /\ Len(sends) = 1
              /\ Responded(s)
              /\ req[s].resp.status = 503
              /\ req[s].resp.success = FALSE
        /\ (Responded(s) /\ "Sanitized" \in req[s].stages) => Len(sends) >= 1
        /\ req[s].pc = "adminSent" => Len(sends) = 1

\* two requests in flight: one whose admin send raised, one past both sends
C2_Witness ==
    \E s, t \in Slots :
        /\ s # t
        /\ Len(req[s].sends) = 1 /\ req[s].sends[1].outcome = "transport"
        /\ req[s].resp.status = 503
        /\ Len(req[t].sends) = 2 /\ req[t].resp.status = 200

\* C3: a request is answered 200 with success true exactly when both sends
\* were made and returned; when a send raised, the answer is 503 with the
\* "temporarily unavailable" message.
C3_SuccessIffBothSent ==
    \A s \in Slots : Responded(s) =>
        /\ (req[s].resp.status = 200 /\ req[s].resp.success)
              <=> (Len(req[s].sends) = 2 /\ AllSendsOk(s))
        /\ req[s].resp.success <=> req[s].resp.status = 200
        /\ ~AllSendsOk(s) =>
              req[s].resp = Response(503, FALSE, << >>, MsgMailDown)

\* the admin send returned and the submitter send raised: 503
C3_Witness ==
    /\ Responded(1)
    /\ Len(req[1].sends) = 2
    /\ req[1].sends[1].outcome = "ok"
    /\ req[1].sends[2].outcome # "ok"
    /\ req[1].resp.status = 503

\* C6: a request admitted by the rate limiter whose body is no JSON, or is
\* JSON but no object, is answered 400 with errors exactly
\* ["Invalid or missing JSON data"]; validation does not run, no mail is sent.
C6_NonObjectBodyRejected ==
    \A s \in Slots :
        ("RateChecked" \in req[s].stages /\ req[s].body.json # "object") =>
            /\ req[s].pc \in {"admitted", "responded"}
            /\ Responded(s) =>
                  req[s].resp = Response(400, FALSE, << MsgInvalidJson >>, "")
            /\ req[s].stages = {"RateChecked"}
            /\ req[s].errors = << >>
            /\ req[s].sends = << >>

C6_Witness ==
    /\ Responded(1)
    /\ req[1].body = ArrayBody
    /\ req[1].resp.status = 400
    /\ req[1].resp.errors = << MsgInvalidJson >>

\* C10: a request over the limit is answered 429 by the limiter and no later
\* stage runs for it: no validation result, no sanitized submission, no send.
C10_RateLimitedSkipsStages ==
    \A s \in Slots :
        /\ req[s].ord > ContactAmount => Responded(s) /\ req[s].resp.status = 429
        /\ req[s].resp.status = 429 =>
              /\ Responded(s)
              /\ req[s].stages = {}
              /\ req[s].errors = << >>
              /\ req[s].san = NoSubmission
              /\ req[s].sends = << >>

\* a valid request is rejected by the limiter after the window was used up
C10_Witness ==
    /\ req[1].resp.status = 429
    /\ req[1].body = ValidBody
    /\ storage[req[1].key]["contact"][ContactLimit.id].count > ContactAmount

\* the constraints of the four fields, as the specification states them
InRange(x, lo, hi) == lo <= x /\ x <= hi

FieldsMeetConstraints(data) ==
    /\ data.name.kind = "str"
    /\ InRange(StrLen(Strip(data.name.val)), NameMin, NameMax)
    /\ data.email.kind = "str"
    /\ EmailMatch(Strip(data.email.val))
    /\ data.phone.kind \in {"absent", "str"}
    /\ \/ Strip(data.phone.val) = << >>
       \/ InRange(DigitCount(Strip(data.phone.val)), PhoneMinDigits, PhoneMaxDigits)
    /\ data.message.kind = "str"
    /\ InRange(StrLen(Strip(data.message.val)), MessageMin, MessageMax)

\* C4: for a JSON-object body, a non-empty error list means the request is
\* answered 400 carrying that list and no mail is sent; an empty list means
\* every field met its constraint.
C4_ErrorsRejectEmptyMeansValid ==
    \A s \in Slots : "Validated" \in req[s].stages =>
        LET v == validate_contact_form(req[s].body.data) IN
        /\ v.errors # << >> =>
              /\ Responded(s)
              /\ req[s].resp = Response(400, FALSE, v.errors, "")
              /\ req[s].sends = << >>
              /\ req[s].san = NoSubmission
        /\ v.errors = << >> => FieldsMeetConstraints(req[s].body.data)

\* a body violating all four rules is answered 400 with four errors
C4_Witness ==
    /\ Responded(1)
    /\ req[1].resp.status = 400
    /\ Len(req[1].resp.errors) = 4
    /\ req[1].sends = << >>

\* C5 (as claimed): whatever values the four keys of a JSON-object body carry,
\* the handler never answers with the generic 500.
C5_NeverGeneric500 ==
    \A s \in Slots : req[s].body.json = "object" => req[s].resp.status # 500

\* the number of characters of the text before escaping
RECURSIVE CharCount(_)
CharCount(s) == IF s = << >> THEN 0 ELSE s[1].n + CharCount(Tail(s))

NoneOf(s, chars) == \A i \in 1..Len(s) : s[i].c \notin chars

\* the longest entity escape() produces
MaxEntityLen == TokLen(EscapeChar("&"))

Capped(text, input, cap) ==
    /\ CharCount(text) <= cap
    /\ NoneOf(text, HtmlSpecial)
    /\ StrLen(text) <= MaxEntityLen * cap
    /\ NoneOf(input.val, HtmlSpecial) => StrLen(text) <= cap

\* C8 (as claimed): the sanitized name, phone and message have at most 100,
\* 20 and 1000 characters.
C8_SanitizedWithinCaps ==
    \A s \in Slots : "Sanitized" \in req[s].stages =>
        /\ StrLen(req[s].san.name) <= NameMax
        /\ StrLen(req[s].san.phone) <= PhoneCap
        /\ StrLen(req[s].san.message) <= MessageMax

\* C8 (amended): the sanitized name, phone and message are the escaped forms
\* of texts of at most 100, 20 and 1000 characters, with none of & < > " '
\* left unescaped; the escaped value has at most 5 times the cap, and at most
\* the cap when the input holds none of the five characters.
C8_CappedBeforeEscaping ==
    \A s \in Slots : "Sanitized" \in req[s].stages =>
        /\ Capped(req[s].san.name, req[s].body.data.name, NameMax)
        /\ Capped(req[s].san.phone, req[s].body.data.phone, PhoneCap)
        /\ Capped(req[s].san.message, req[s].body.data.message, MessageMax)

\* a name of 100 ampersands is sanitized to 500 characters, next to a phone
\* that was cut to its cap
C8_Witness ==
    /\ "Sanitized" \in req[1].stages
    /\ StrLen(req[1].san.name) = MaxEntityLen * NameMax
    /\ StrLen(Strip(req[1].body.data.phone.val)) > PhoneCap
    /\ StrLen(req[1].san.phone) = PhoneCap

\* C7 (as claimed): GET /api/health is always answered 200 "healthy".
C7_HealthAlwaysHealthy ==
    health.status # 0 => health.status = 200 /\ health.body = "healthy"

\* C9 (as claimed): no client key has more than 200 contact requests admitted
\* within one day.
C9_AtMostDayAmountPerDay ==
    \A k \in Keys : now < DayWindow => admitted[k] <= DayAmount

\* the field an error message complains about, in the order of the checks
FieldOrder == << "name", "email", "phone", "message" >>

FieldOfError(err) ==
    CASE err \in {ErrNameShort, ErrNameLong} -> 1
      [] err = ErrEmail -> 2
      [] err = ErrPhone -> 3
      [] err \in {ErrMessageShort, ErrMessageLong} -> 4

\* the rule of a field is violated by the (string or absent) value it carries
Violated(data, i) ==
    LET text == Strip(data[FieldOrder[i]].val) IN
    CASE i = 1 -> ~InRange(StrLen(text), NameMin, NameMax)
      [] i = 2 -> ~EmailMatch(text)
      [] i = 3 -> text # << >> /\ ~InRange(DigitCount(text), PhoneMinDigits, PhoneMaxDigits)
      [] i = 4 -> ~InRange(StrLen(text), MessageMin, MessageMax)

\* C11: the four fields are checked independently and every violation is
\* collected: the error list holds exactly one error for each violated field
\* and none for the others, in the order name, email, phone, message.
C11_AllViolationsInOrder ==
    \A s \in Slots : "Validated" \in req[s].stages =>
        LET errs == req[s].errors IN
        /\ \A i \in 1..4 :
              Violated(req[s].body.data, i)
                  <=> (\E j \in 1..Len(errs) : FieldOfError(errs[j]) = i)
        /\ \A j \in 1..Len(errs), l \in 1..Len(errs) :
              j < l => FieldOfError(errs[j]) < FieldOfError(errs[l])
        /\ Responded(s) /\ errs # << >> => req[s].resp.errors = errs

\* a name too long and a message too short, email and phone in order: the two
\* errors, name first
C11_Witness ==
    /\ Responded(1)
    /\ req[1].resp.status = 400
    /\ req[1].resp.errors = << ErrNameLong, ErrMessageShort >>
    /\ req[1].body.data.phone.kind = "str"

\* C12: the validation result holds the phone error exactly when the phone is
\* non-empty after trimming and its digit count lies outside [10,15], whatever
\* the other fields are; an omitted or blank phone gives no phone error.
HasPhoneError(s) == \E j \in 1..Len(req[s].errors) : req[s].errors[j] = ErrPhone

C12_PhoneRule ==
    \A s \in Slots : "Validated" \in req[s].stages =>
        LET phone == req[s].body.data.phone
            digits == DigitCount(Strip(phone.val)) IN
        /\ (phone.kind = "absent" \/ Strip(phone.val) = << >>) => ~HasPhoneError(s)
        /\ (Strip(phone.val) # << >> /\ (digits < PhoneMinDigits \/ digits > PhoneMaxDigits))
              => HasPhoneError(s)
        /\ (Strip(phone.val) # << >> /\ digits >= PhoneMinDigits /\ digits <= PhoneMaxDigits)
              => ~HasPhoneError(s)

\* a phone of 23 characters with 10 digits passes, next to other fields that fail
C12_Witness ==
    /\ Responded(1)
    /\ req[1].body.data.phone = Str(TextLongPhone)
    /\ req[1].errors # << >>
    /\ ~HasPhoneError(1)

\* the pairs (upper-case letter, its lower-case letter)
LowerPairs == { << "J", "j" >>, << "E", "e" >> }

\* t is s with every upper-case letter replaced by its lower-case letter
IsLowerCaseOf(t, s) ==
    /\ Len(t) = Len(s)
    /\ \A i \in 1..Len(s) :
          /\ t[i].n = s[i].n
          /\ t[i].c \notin UpperLetters
          /\ t[i].c = s[i].c \/ << s[i].c, t[i].c >> \in LowerPairs

\* C13: an email that matches the pattern is accepted in any case; the
\* sanitized email of an accepted submission is the trimmed input in lower
\* case, and the confirmation message is sent to that address.
C13_EmailLowerCased ==
    \A s \in Slots :
        /\ ("Validated" \in req[s].stages /\ EmailMatch(Strip(req[s].body.data.email.val)))
              => \A j \in 1..Len(req[s].errors) : req[s].errors[j] # ErrEmail
        /\ "Sanitized" \in req[s].stages =>
              /\ IsLowerCaseOf(req[s].san.email, Strip(req[s].body.data.email.val))
              /\ \A j \in 1..Len(req[s].sends) :
                    req[s].sends[j].msg = "user" => req[s].sends[j].to = req[s].san.email

\* the confirmation for "Jo@Ex.co" went to "jo@ex.co"
C13_Witness ==
    /\ Len(req[1].sends) = 2
    /\ req[1].body.data.email = Str(TextEmail)
    /\ req[1].sends[2].to = << Run("j", 1), Run("o", 1), Run("@", 1), Run("e", 1),
                               Run("x", 1), Run(".", 1), Run("c", 1), Run("o", 1) >>

C15_EveryRequestAnswered ==
    \A s \in Slots : (req[s].pc = "admitted") ~> Responded(s)

\* C16 (as claimed): a request whose mail send raised an exception that is no
\* transport failure is answered 500 "Internal server error.", not 503.
C16_OtherFailureAnswered500 ==
    \A s \in Slots :
        (/\ Responded(s)
         /\ \E i \in 1..Len(req[s].sends) : req[s].sends[i].outcome = "other")
        => /\ req[s].resp.status = 500
           /\ req[s].resp.message = MsgInternal

\* the sends of message m recorded for request s
SendsOf(s, m) == {i \in 1..Len(req[s].sends) : req[s].sends[i].msg = m}

\* b is a, or a with one more element at its end
SameOrOneMore(a, b) ==
    \/ b = a
    \/ /\ Len(b) = Len(a) + 1
       /\ SubSeq(b, 1, Len(a)) = a

\* C17: within one request the mail sender is called at most twice, at most
\* once for the admin message and at most once for the submitter message;
\* when the submitter send raises after the admin send returned, the answer is
\* 503; a send once made stays recorded as it was (nothing is rolled back),
\* each step makes at most one send, and an answered request makes no send.
C17_NoRetryNoRollback ==
    /\ [](\A s \in Slots :
            /\ Len(req[s].sends) <= 2
            /\ Cardinality(SendsOf(s, "admin")) <= 1
            /\ Cardinality(SendsOf(s, "user")) <= 1
            /\ (/\ Len(req[s].sends) = 2
                /\ req[s].sends[2].outcome # "ok") =>
                   /\ Responded(s)
                   /\ req[s].resp.status = 503
                   /\ req[s].sends[1] = Sent("admin", AdminAddress, "ok"))
    /\ [][\A s \in Slots :
            IF Responded(s)
            THEN req'[s] = req[s] \/ req'[s].sends = << >>
            ELSE SameOrOneMore(req[s].sends, req'[s].sends)]_vars

\* both slots hold a request whose admin send returned and whose submitter
\* send raised, one for each kind of exception
C17_Witness ==
    \E s, t \in Slots :
        /\ req[s].sends = << Sent("admin", AdminAddress, "ok"),
                             Sent("user", req[s].san.email, "transport") >>
        /\ req[t].sends = << Sent("admin", AdminAddress, "ok"),
                             Sent("user", req[t].san.email, "other") >>
        /\ req[s].resp.status = 503
        /\ req[t].resp.status = 503

\* the contact counter of client k as the limiter reads it now
ContactCount(k) == Live(storage[k]["contact"][ContactLimit.id], now).count

\* C18: the counters are kept per client key.  A request is rejected with 429
\* only when its own client has sent more than 5 requests in the window, and
\* exactly when its own client's counter had reached 5 as it arrived; a step
\* taken for a request of one client leaves the counters of every other
\* client as they were.
C18_ClientsIsolated ==
    /\ [](\A s \in Slots :
            (Responded(s) /\ req[s].resp.status = 429) => req[s].ord > ContactAmount)
    /\ [][\A s \in Slots :
            /\ (req[s].pc \in {"idle", "responded"} /\ req'[s] # req[s]) =>
                  (req'[s].resp.status = 429 <=> ContactCount(req'[s].key) >= ContactAmount)
            /\ req'[s] # req[s] =>
                  \A j \in Keys \ {req'[s].key} :
                      /\ storage'[j] = storage[j]
                      /\ ledger'[j] = ledger[j]
                      /\ admitted'[j] = admitted[j]]_vars

\* client k1 is over its limit and a request of client k2 is answered 200
C18_Witness ==
    /\ ContactCount("k1") > ContactAmount
    /\ req[1].key = "k2"
    /\ Responded(1)
    /\ req[1].resp.status = 200

\* C19: every contact request counts against its client's quota whatever its
\* outcome.  The client's counter equals the number of its requests in the
\* open window; no step of the handler after the rate check changes a counter
\* (no outcome gives a unit back); and a request that is the sixth or later of
\* its window is answered 429 whatever its body, while the first five are not.
C19_QuotaConsumedWhateverOutcome ==
    /\ [](/\ \A k \in Keys : ContactCount(k) = ledger[k].n
          /\ \A s \in Slots : Responded(s) =>
                (req[s].ord > ContactAmount <=> req[s].resp.status = 429))
    /\ [][(\E s \in Slots : /\ req[s].pc \notin {"idle", "responded"}
                            /\ req'[s] # req[s])
            => storage' = storage]_vars

\* the fifth request of a window was admitted and failed (400, 500 or 503),
\* and the client's quota is used up
C19_Witness ==
    /\ Responded(1)
    /\ req[1].ord = ContactAmount
    /\ req[1].resp.status \in {400, 500, 503}
    /\ ContactCount(req[1].key) = ContactAmount
    /\ ~Allowed(storage[req[1].key], "contact", now)

====
